---- MODULE Spec2Model ----
(***************************************************************************)
(* Model of processors/base_processor.py: BaseProcessor.process_code and   *)
(* BaseProcessor.get_chunks with its nested add_chunk and process_nodes.   *)
(*                                                                         *)
(* A syntax tree is an input.  A node carries exactly what the code reads  *)
(* from a tree-sitter Node: start_byte, end_byte, start_point, end_point,  *)
(* type, children and text.  node.text.decode('utf-8') is represented by   *)
(* the flag dec (does the decode succeed) and by text, the interval of     *)
(* character positions of the decoded source that the node's bytes decode  *)
(* to.  A string that is a piece of the decoded source is represented by   *)
(* its interval [lo, hi) of character positions, so that byte offsets and  *)
(* character offsets stay different units, as they are in the code.        *)
(*                                                                         *)
(* process_nodes is recursive; its activations are the frames of stack.    *)
(***************************************************************************)
EXTENDS Integers, Sequences, FiniteSets, TLC

VARIABLES tree, pc, chunks, stack, ret, emitted, failure

vars == <<tree, pc, chunks, stack, ret, emitted, failure>>

\* ------------------------------------------------------------------------
\* Program constants
\* ------------------------------------------------------------------------
MAX_CHUNK_SIZE == 2048
MIN_CHUNK_SIZE == 1024

\* ------------------------------------------------------------------------
\* Bounds of the model
\* ------------------------------------------------------------------------
\* largest number of nodes below the root
MaxNodes == 5

\* ------------------------------------------------------------------------
\* Helpers
\* ------------------------------------------------------------------------
Min(a, b) == IF a < b THEN a ELSE b
Max(a, b) == IF a > b THEN a ELSE b
Last(s) == s[Len(s)]

\* ------------------------------------------------------------------------
\* Input trees
\* ------------------------------------------------------------------------
\* A leaf is given by the length of its text in characters, its length in
\* bytes and whether its bytes decode on their own.  300 is well under
\* MIN_CHUNK_SIZE, 1024 is MIN_CHUNK_SIZE (this text holds one two-byte
\* character), 1500 lies between the thresholds, 3000 is over MAX_CHUNK_SIZE.
LeafKinds ==
    { [chars |-> 300,  bytes |-> 300,  dec |-> TRUE],
      [chars |-> 1024, bytes |-> 1025, dec |-> TRUE],
      [chars |-> 1500, bytes |-> 1500, dec |-> TRUE],
      [chars |-> 3000, bytes |-> 3000, dec |-> TRUE],
      [chars |-> 300,  bytes |-> 300,  dec |-> FALSE] }

\* the shape of a leaf, and of an inner node, whose text is the
\* concatenation of its children's texts
LeafShape(k) == [leaf |-> TRUE, kind |-> k, kids |-> << >>]
InnerShape(f) ==
    [leaf |-> FALSE, kind |-> [chars |-> 0, bytes |-> 0, dec |-> TRUE],
     kids |-> f]

\* An ordered sibling list with n nodes in total is written down in
\* preorder as the depths d[1..n] of its nodes: the first node has depth 1
\* and a node lies at most one level below the node before it.  A node
\* followed by a deeper node is an inner node, every other node is a leaf.
DepthSeqs(n) ==
    { d \in [1..n -> 1..n] :
        /\ n > 0 => d[1] = 1
        /\ \A q \in 2..n : d[q] <= d[q - 1] + 1 }

IsInner(d, q) == q < Len(d) /\ d[q + 1] > d[q]
LeafPositions(d) == { q \in 1..Len(d) : ~IsInner(d, q) }

RECURSIVE ShapeAt(_, _, _), ShapeList(_, _, _, _)
\* the node written at position q, its leaves' kinds given by k
ShapeAt(d, k, q) ==
    IF IsInner(d, q)
    THEN InnerShape(ShapeList(d, k, q + 1, d[q] + 1))
    ELSE LeafShape(k[q])

\* the nodes of depth lev written from position q on, up to the first node
\* above that depth
ShapeList(d, k, q, lev) ==
    IF q > Len(d) \/ d[q] < lev THEN << >>
    ELSE IF d[q] > lev THEN ShapeList(d, k, q + 1, lev)
    ELSE <<ShapeAt(d, k, q)>> \o ShapeList(d, k, q + 1, lev)

RECURSIVE ShapeBytes(_), ShapeChars(_)
ShapeBytes(s) ==
    IF s.leaf THEN s.kind.bytes
    ELSE IF s.kids = << >> THEN 0
    ELSE ShapeBytes(Head(s.kids))
         + ShapeBytes([s EXCEPT !.kids = Tail(s.kids)])

ShapeChars(s) ==
    IF s.leaf THEN s.kind.chars
    ELSE IF s.kids = << >> THEN 0
    ELSE ShapeChars(Head(s.kids))
         + ShapeChars([s EXCEPT !.kids = Tail(s.kids)])

RECURSIVE PlaceNode(_, _, _, _), PlaceList(_, _, _, _, _)
\* the Node for shape s whose first byte is at byte offset b and whose first
\* character is character c of the decoded source.  The source is one line,
\* so a point is (0, byte column).  path identifies the node in the tree.
PlaceNode(s, b, c, path) ==
    [ type        |-> IF s.leaf THEN "statement" ELSE "block",
      start_byte  |-> b,
      end_byte    |-> b + ShapeBytes(s),
      start_point |-> <<0, b>>,
      end_point   |-> <<0, b + ShapeBytes(s)>>,
      dec         |-> s.kind.dec,
      text        |-> [lo |-> c, hi |-> c + ShapeChars(s)],
      children    |-> PlaceList(s.kids, b, c, path, 1),
      path        |-> path ]

\* sibling lists are contiguous: each node starts where the previous ends
PlaceList(kids, b, c, path, k) ==
    IF kids = << >> THEN << >>
    ELSE <<PlaceNode(Head(kids), b, c, Append(path, k))>>
         \o PlaceList(Tail(kids), b + ShapeBytes(Head(kids)),
                      c + ShapeChars(Head(kids)), path, k + 1)

\* the root node: its children start at byte 0, and its text ends with the
\* newline that follows its last child
PlaceRoot(f) ==
    LET s == InnerShape(f)
    IN [ type        |-> "module",
         start_byte  |-> 0,
         end_byte    |-> ShapeBytes(s) + 1,
         start_point |-> <<0, 0>>,
         end_point   |-> <<0, ShapeBytes(s) + 1>>,
         text        |-> [lo |-> 0, hi |-> ShapeChars(s) + 1],
         children    |-> PlaceList(f, 0, 0, << >>, 1),
         path        |-> << >> ]

\* ------------------------------------------------------------------------
\* get_chunks
\* ------------------------------------------------------------------------
\* len(node.text.decode('utf-8'))
NodeSize(node) == node.text.hi - node.text.lo

\* source_code = root_node.text.decode('utf-8'): the characters 0..n-1
SourceLen == tree.text.hi - tree.text.lo

\* source_code[a:b] for a str of n characters and offsets 0 <= a, 0 <= b:
\* Python clamps both offsets to the length of the string
Slice(n, a, b) ==
    [lo |-> Min(a, n), hi |-> Max(Min(a, n), Min(b, n))]

\* add_chunk numbering the chunks from one
add_chunk_one_based(cs, start_byte, end_byte, start_point, end_point, chunk_type) ==
    Append(cs,
        [ content  |-> Slice(SourceLen, start_byte, end_byte),
          metadata |-> [ id          |-> Len(cs) + 1,
                         type        |-> chunk_type,
                         start_point |-> start_point,
                         end_point   |-> end_point,
                         file_name   |-> "file" ] ])

\* add_chunk: the list chunks after the append
add_chunk(cs, start_byte, end_byte, start_point, end_point, chunk_type) ==
    Append(cs,
        [ content  |-> Slice(SourceLen, start_byte, end_byte),
          metadata |-> [ id          |-> Len(cs),
                         type        |-> chunk_type,
                         start_point |-> start_point,
                         end_point   |-> end_point,
                         file_name   |-> "file" ] ])

\* a fresh activation of process_nodes(nodes)
NewFrame(nodes, parent) ==
    [ nodes               |-> nodes,
      i                   |-> 0,
      current_chunk_nodes |-> << >>,
      current_chunk_size  |-> 0,
      at                  |-> "outer",
      list                |-> parent ]

Top == stack[Len(stack)]
SetTop(f) == [stack EXCEPT ![Len(stack)] = f]
\* nodes[i], with the code's zero-based i
Cur(f) == f.nodes[f.i + 1]

\* line 71
MergeEligible(f, node_size) ==
    f.current_chunk_size + node_size < MIN_CHUNK_SIZE

\* line 76 stopping one node before the end of the list
InnerContinue_short(f) ==
    f.current_chunk_size < MIN_CHUNK_SIZE /\ f.i < Len(f.nodes) - 1

\* line 76 filling the accumulator up to MAX_CHUNK_SIZE
InnerContinue_max(f) ==
    f.current_chunk_size < MAX_CHUNK_SIZE /\ f.i < Len(f.nodes)

\* line 76
InnerContinue(f) ==
    f.current_chunk_size < MIN_CHUNK_SIZE /\ f.i < Len(f.nodes)

\* line 96
TooBig(node) ==
    NodeSize(node) > MAX_CHUNK_SIZE /\ Len(node.children) > 0

\* line 95 forgotten: the size of the flushed chunk is carried over
Cleared_keeps_size(f) ==
    [f EXCEPT !.current_chunk_nodes = << >>,
              !.at = "outer"]

\* lines 94-95, and back to the test of the outer loop
Cleared(f) ==
    [f EXCEPT !.current_chunk_nodes = << >>,
              !.current_chunk_size = 0,
              !.at = "outer"]

Init ==
    /\ \E n \in 0..MaxNodes : \E d \in DepthSeqs(n) :
         \E k \in [LeafPositions(d) -> LeafKinds] :
           tree = PlaceRoot(ShapeList(d, k, 1, 1))
    /\ pc = "start"
    /\ chunks = << >>
    /\ stack = << >>
    /\ ret = [shape |-> "none"]
    /\ emitted = << >>
    /\ failure = "none"

\* process_code: parser.parse raises, the pair ([], {}) is returned
ParseError ==
    /\ pc = "start"
    /\ pc' = "done"
    /\ ret' = [shape |-> "pair", chunks |-> << >>]
    /\ failure' = "ParseError"
    /\ UNCHANGED <<tree, chunks, stack, emitted>>

\* get_chunks: root_node.text.decode raises for this source, the list
\* chunks, still empty, is returned (lines 40-42)
SourceDecodeError ==
    /\ pc = "start"
    /\ pc' = "done"
    /\ ret' = [shape |-> "list", chunks |-> chunks]
    /\ failure' = "SourceDecodeError"
    /\ UNCHANGED <<tree, chunks, stack, emitted>>

\* get_chunks: the source decodes (line 39) and process_nodes is called on
\* root_node.children (line 104)
Begin ==
    /\ pc = "start"
    /\ pc' = "running"
    /\ stack' = <<NewFrame(tree.children, << >>)>>
    /\ UNCHANGED <<tree, chunks, ret, emitted, failure>>

\* outer loop, lines 64-69: the node does not decode and is skipped
OuterSkip ==
    /\ pc = "running"
    /\ Top.at = "outer"
    /\ Top.i < Len(Top.nodes)
    /\ ~Cur(Top).dec
    /\ stack' = SetTop([Top EXCEPT !.i = @ + 1])
    /\ UNCHANGED <<tree, pc, chunks, ret, emitted, failure>>

\* lines 71-74: the node opens the accumulator
MergeFirst ==
    /\ pc = "running"
    /\ Top.at = "outer"
    /\ Top.i < Len(Top.nodes)
    /\ Cur(Top).dec
    /\ MergeEligible(Top, NodeSize(Cur(Top)))
    /\ stack' = SetTop([Top EXCEPT
            !.current_chunk_nodes = Append(@, Cur(Top)),
            !.current_chunk_size = @ + NodeSize(Cur(Top)),
            !.i = @ + 1,
            !.at = "inner"])
    /\ UNCHANGED <<tree, pc, chunks, ret, emitted, failure>>

\* inner loop, lines 78-83: the next node does not decode and is skipped
InnerSkip ==
    /\ pc = "running"
    /\ Top.at = "inner"
    /\ InnerContinue(Top)
    /\ ~Cur(Top).dec
    /\ stack' = SetTop([Top EXCEPT !.i = @ + 1])
    /\ UNCHANGED <<tree, pc, chunks, ret, emitted, failure>>

\* inner loop, lines 84-86: the next node joins the accumulator
InnerPull ==
    /\ pc = "running"
    /\ Top.at = "inner"
    /\ InnerContinue(Top)
    /\ Cur(Top).dec
    /\ stack' = SetTop([Top EXCEPT
            !.current_chunk_nodes = Append(@, Cur(Top)),
            !.current_chunk_size = @ + NodeSize(Cur(Top)),
            !.i = @ + 1])
    /\ UNCHANGED <<tree, pc, chunks, ret, emitted, failure>>

\* lines 87-95: the inner loop is over, the accumulator becomes a "mix"
\* chunk and is cleared
Flush ==
    /\ pc = "running"
    /\ Top.at = "inner"
    /\ ~InnerContinue(Top)
    /\ LET acc == Top.current_chunk_nodes IN
       IF acc # << >>
       THEN /\ chunks' = add_chunk(chunks, acc[1].start_byte,
                                   Last(acc).end_byte, acc[1].start_point,
                                   Last(acc).end_point, "mix")
            /\ emitted' = Append(emitted,
                   [ kind  |-> "mix",
                     list  |-> Top.list,
                     nodes |-> [k \in 1..Len(acc) |-> acc[k].path],
                     size  |-> Top.current_chunk_size,
                     i     |-> Top.i,
                     len   |-> Len(Top.nodes),
                     start_byte |-> acc[1].start_byte,
                     end_byte   |-> Last(acc).end_byte ])
       ELSE UNCHANGED <<chunks, emitted>>
    /\ stack' = SetTop(Cleared(Top))
    /\ UNCHANGED <<tree, pc, ret, failure>>

\* lines 96-98: the node is too big, process_nodes(node.children) starts
Split ==
    /\ pc = "running"
    /\ Top.at = "outer"
    /\ Top.i < Len(Top.nodes)
    /\ Cur(Top).dec
    /\ ~MergeEligible(Top, NodeSize(Cur(Top)))
    /\ TooBig(Cur(Top))
    /\ stack' = Append(stack, NewFrame(Cur(Top).children, Cur(Top).path))
    /\ UNCHANGED <<tree, pc, chunks, ret, emitted, failure>>

\* lines 100-102: the node becomes a chunk of its own
Standalone ==
    /\ pc = "running"
    /\ Top.at = "outer"
    /\ Top.i < Len(Top.nodes)
    /\ Cur(Top).dec
    /\ ~MergeEligible(Top, NodeSize(Cur(Top)))
    /\ ~TooBig(Cur(Top))
    /\ LET node == Cur(Top) IN
       /\ chunks' = add_chunk(chunks, node.start_byte, node.end_byte,
                              node.start_point, node.end_point, node.type)
       /\ emitted' = Append(emitted,
              [ kind  |-> "standalone",
                list  |-> Top.list,
                nodes |-> <<node.path>>,
                size  |-> NodeSize(node),
                i     |-> Top.i,
                len   |-> Len(Top.nodes),
                start_byte |-> node.start_byte,
                end_byte   |-> node.end_byte ])
    /\ stack' = SetTop([Top EXCEPT !.i = @ + 1])
    /\ UNCHANGED <<tree, pc, ret, failure>>

\* a recursive process_nodes call returns (line 62 is false), the caller
\* goes on at line 99
ReturnNested ==
    /\ pc = "running"
    /\ Len(stack) > 1
    /\ Top.at = "outer"
    /\ Top.i >= Len(Top.nodes)
    /\ LET caller == stack[Len(stack) - 1] IN
       stack' = Append(SubSeq(stack, 1, Len(stack) - 2),
                       [caller EXCEPT !.i = @ + 1])
    /\ UNCHANGED <<tree, pc, chunks, ret, emitted, failure>>

\* the call of line 104 returns, get_chunks returns chunks (line 105) and
\* process_code passes it on (line 115)
ReturnChunks ==
    /\ pc = "running"
    /\ Len(stack) = 1
    /\ Top.at = "outer"
    /\ Top.i >= Len(Top.nodes)
    /\ stack' = << >>
    /\ pc' = "done"
    /\ ret' = [shape |-> "list", chunks |-> chunks]
    /\ UNCHANGED <<tree, chunks, emitted, failure>>

Next ==
    \/ ParseError
    \/ SourceDecodeError
    \/ Begin
    \/ OuterSkip
    \/ MergeFirst
    \/ InnerSkip
    \/ InnerPull
    \/ Flush
    \/ Split
    \/ Standalone
    \/ ReturnNested
    \/ ReturnChunks

Spec == Init /\ [][Next]_vars

\* ------------------------------------------------------------------------
\* Vocabulary of the properties
\* ------------------------------------------------------------------------
RECURSIVE NodeAt(_, _)
\* the node that path leads to from node n
NodeAt(n, path) ==
    IF path = << >> THEN n
    ELSE NodeAt(n.children[Head(path)], Tail(path))

\* the sibling list below the node at path
ListAt(path) == NodeAt(tree, path).children

Finished == pc = "done" /\ failure = "none"

RECURSIVE AllDecode(_)
\* no node of the sibling list, at any depth, fails to decode
AllDecode(nodes) ==
    \A k \in 1..Len(nodes) : nodes[k].dec /\ AllDecode(nodes[k].children)

RECURSIVE Norm(_)
\* The concatenation of pieces of the source, each an interval of character
\* positions: empty pieces dropped, adjacent pieces joined.  Two
\* concatenations are the same string of positions iff these are equal.
Norm(s) ==
    IF s = << >> THEN << >>
    ELSE LET h == Head(s)
             r == Norm(Tail(s))
         IN IF h.lo = h.hi THEN r
            ELSE IF r # << >> /\ r[1].lo = h.hi
                 THEN <<[lo |-> h.lo, hi |-> r[1].hi]>> \o Tail(r)
                 ELSE <<h>> \o r

Contents(cs) == [k \in 1..Len(cs) |-> cs[k].content]
Texts(nodes) == [k \in 1..Len(nodes) |-> nodes[k].text]

\* the span of chunk k covers the whole span of node n
Covers(k, n) ==
    emitted[k].start_byte <= n.start_byte /\ n.end_byte <= emitted[k].end_byte

\* path p leads to the node at path q or to one of its ancestors
IsPrefix(p, q) == Len(p) <= Len(q) /\ SubSeq(q, 1, Len(p)) = p

\* the chunks that hold node n among their constituent nodes
ChunksOf(n) ==
    { k \in 1..Len(emitted) :
        \E j \in 1..Len(emitted[k].nodes) : emitted[k].nodes[j] = n.path }

\* the indices of the decodable nodes of a sibling list
Decodable(nodes) == { k \in 1..Len(nodes) : nodes[k].dec }

\* ------------------------------------------------------------------------
\* C1 (coverage), as claimed: when no node fails to decode, the contents of
\* the returned chunks, concatenated in emission order, are exactly the
\* concatenation of the texts of root.children.
\* ------------------------------------------------------------------------
C1_Coverage ==
    (Finished /\ AllDecode(tree.children))
        => Norm(Contents(ret.chunks)) = Norm(Texts(tree.children))

\* ------------------------------------------------------------------------
\* C2 (id monotonicity): at every state of a run the k-th chunk emitted so
\* far (0-based) has id k, at every recursion depth, and so has the k-th
\* chunk of the returned list.
\* ------------------------------------------------------------------------
C2_IdMonotonic ==
    /\ \A k \in 1..Len(chunks) : chunks[k].metadata.id = k - 1
    /\ (pc = "done" /\ ret.shape = "list")
          => \A k \in 1..Len(ret.chunks) : ret.chunks[k].metadata.id = k - 1

\* a finished run with at least three chunks, one of them emitted inside a
\* recursive process_nodes call and followed by a chunk of the outer call
C2_Witness ==
    /\ Finished
    /\ Len(ret.chunks) >= 3
    /\ \E k \in 1..Len(emitted) : \E j \in 1..Len(emitted) :
          k < j /\ emitted[k].list # << >> /\ emitted[j].list = << >>

\* ------------------------------------------------------------------------
\* C3 (end-to-end example), as claimed: children of 300, 300 and 3000
\* characters, the third with two leaf children of 1500 each, give a "mix"
\* chunk over the first two children and one standalone chunk per grandchild.
\* ------------------------------------------------------------------------
ExampleTree ==
    LET small == LeafShape([chars |-> 300, bytes |-> 300, dec |-> TRUE])
        half  == LeafShape([chars |-> 1500, bytes |-> 1500, dec |-> TRUE])
    IN PlaceRoot(<<small, small, InnerShape(<<half, half>>)>>)

C3_Example ==
    (Finished /\ tree = ExampleTree)
        => /\ Len(ret.chunks) = 3
           /\ \A k \in 1..3 : ret.chunks[k].metadata.id = k - 1
           /\ ret.chunks[1].metadata.type = "mix"
           /\ ret.chunks[1].content = [lo |-> 0, hi |-> 600]
           /\ ret.chunks[2].metadata.type = "statement"
           /\ ret.chunks[2].content = [lo |-> 600, hi |-> 2100]
           /\ ret.chunks[3].metadata.type = "statement"
           /\ ret.chunks[3].content = [lo |-> 2100, hi |-> 3600]

\* ------------------------------------------------------------------------
\* C4 (split threshold), as claimed: a decodable node of any sibling list
\* that process_nodes is working on, longer than MAX_CHUNK_SIZE and with
\* children, never appears in a chunk: the only chunks whose span covers the
\* whole node are those produced from the lists below it.
\* ------------------------------------------------------------------------
C4_SplitThreshold ==
    \A f \in 1..Len(stack) : \A q \in 1..Len(stack[f].nodes) :
        LET n == stack[f].nodes[q] IN
        (n.dec /\ TooBig(n))
            => \A k \in 1..Len(emitted) :
                  Covers(k, n) => IsPrefix(n.path, emitted[k].list)

\* ------------------------------------------------------------------------
\* C5 (unsplittable oversized leaf), as claimed: once process_nodes has
\* gone past a decodable childless node longer than MAX_CHUNK_SIZE, exactly
\* one chunk holds it, and that chunk is standalone, has the node's span and
\* the node's type.
\* ------------------------------------------------------------------------
C5_OversizedLeaf ==
    \A f \in 1..Len(stack) : \A q \in 1..Len(stack[f].nodes) :
        LET n == stack[f].nodes[q] IN
        (/\ n.dec
         /\ NodeSize(n) > MAX_CHUNK_SIZE
         /\ Len(n.children) = 0
         /\ stack[f].at = "outer"
         /\ q <= stack[f].i)
            => /\ Cardinality(ChunksOf(n)) = 1
               /\ \A k \in ChunksOf(n) :
                    /\ emitted[k].kind = "standalone"
                    /\ chunks[k].metadata.type = n.type
                    /\ chunks[k].metadata.start_point = n.start_point
                    /\ chunks[k].metadata.end_point = n.end_point

RECURSIVE SumSizes(_, _, _)
\* the character length of nodes[a..b] together
SumSizes(nodes, a, b) ==
    IF a > b THEN 0 ELSE NodeSize(nodes[a]) + SumSizes(nodes, a + 1, b)

\* A partition of nodes[1..n] into consecutive groups is given by the set of
\* the positions after which a group ends, n excluded.  GroupStart is the
\* first position of the group that ends at position c.
GroupStart(cuts, c) ==
    IF \E b \in cuts : b < c
    THEN 1 + CHOOSE b \in cuts : b < c /\ \A x \in cuts : x < c => x <= b
    ELSE 1

\* the partitions in which every group but the final one has at least
\* MIN_CHUNK_SIZE characters
GoodPartitions(nodes) ==
    { cuts \in SUBSET (1..(Len(nodes) - 1)) :
        \A c \in cuts :
            SumSizes(nodes, GroupStart(cuts, c), c) >= MIN_CHUNK_SIZE }

GroupCounts(nodes) ==
    IF nodes = << >> THEN {0}
    ELSE { Cardinality(cuts) + 1 : cuts \in GoodPartitions(nodes) }

\* every node of the list decodes and is well under MIN_CHUNK_SIZE (at most
\* half of it)
AllSmall(nodes) ==
    \A k \in 1..Len(nodes) :
        nodes[k].dec /\ 2 * NodeSize(nodes[k]) <= MIN_CHUNK_SIZE

\* what C6 says of every such list apart from the number of chunks: only
\* "mix" chunks, and every chunk but the final one has reached MIN_CHUNK_SIZE
MergedOnly ==
    /\ \A k \in 1..Len(ret.chunks) : ret.chunks[k].metadata.type = "mix"
    /\ \A k \in 1..(Len(emitted) - 1) : emitted[k].size >= MIN_CHUNK_SIZE

\* ------------------------------------------------------------------------
\* C6 (merge threshold), as claimed: a sibling list of decodable nodes well
\* under MIN_CHUNK_SIZE gives only "mix" chunks, each but the final one of at
\* least MIN_CHUNK_SIZE characters, and as few chunks as a partition into
\* consecutive groups with that size condition can have.
\* ------------------------------------------------------------------------
C6_FewestChunks ==
    (Finished /\ AllSmall(tree.children))
        => /\ MergedOnly
           /\ \A c \in GroupCounts(tree.children) : Len(ret.chunks) <= c

\* C6 as amended: ... and as many chunks as such a partition can have (a
\* chunk is closed as soon as it reaches MIN_CHUNK_SIZE).
C6_MostChunks ==
    (Finished /\ AllSmall(tree.children))
        => /\ MergedOnly
           /\ Len(ret.chunks) \in GroupCounts(tree.children)
           /\ \A c \in GroupCounts(tree.children) : Len(ret.chunks) >= c

\* five small siblings returned as two chunks, where one chunk was possible
C6_Witness ==
    /\ Finished
    /\ AllSmall(tree.children)
    /\ Len(tree.children) = 5
    /\ Len(ret.chunks) = 2
    /\ 1 \in GroupCounts(tree.children)

\* ------------------------------------------------------------------------
\* C7 (decode-skip), as claimed: in a sibling list that process_nodes is
\* working on, with exactly one undecodable node and decodable nodes before
\* and after it, the undecodable node is a constituent of no chunk and its
\* span lies inside the span of no chunk.
\* ------------------------------------------------------------------------
C7_DecodeSkip ==
    \A f \in 1..Len(stack) : \A q \in 1..Len(stack[f].nodes) :
        LET nodes == stack[f].nodes
            n     == nodes[q]
        IN (/\ ~n.dec
            /\ Decodable(nodes) = (1..Len(nodes)) \ {q}
            /\ 1 < q
            /\ q < Len(nodes))
              => /\ ChunksOf(n) = {}
                 /\ \A k \in 1..Len(emitted) : ~Covers(k, n)

\* ------------------------------------------------------------------------
\* C8 (source decode failure is distinguishable), as claimed: what is
\* returned when the root's text does not decode differs from what is
\* returned for a decodable file without chunks, which is the empty list.
\* ------------------------------------------------------------------------
C8_Distinguishable ==
    (pc = "done" /\ failure = "SourceDecodeError")
        => ret # [shape |-> "list", chunks |-> << >>]

\* ------------------------------------------------------------------------
\* C9 (flush rule): every "mix" chunk was emitted with an accumulator of at
\* least MIN_CHUNK_SIZE characters or with the cursor past the end of the
\* list; one emitted below MIN_CHUNK_SIZE ends at the last decodable node of
\* its list; a chunk starts at the start of its first node, ends at the end
\* of its last node and holds consecutive decodable nodes of one list; the
\* accumulator is empty whenever an activation is at the test of its outer
\* loop, which includes its return; and every decodable node the cursor has
\* passed by then is in exactly one chunk of its list, unless it was split.
\* ------------------------------------------------------------------------
C9_FlushRule ==
    /\ \A k \in 1..Len(emitted) :
          LET e     == emitted[k]
              nodes == ListAt(e.list)
              first == NodeAt(tree, e.nodes[1])
              last  == NodeAt(tree, Last(e.nodes))
          IN /\ e.kind = "mix" => (e.size >= MIN_CHUNK_SIZE \/ e.i >= e.len)
             /\ (e.kind = "mix" /\ e.size < MIN_CHUNK_SIZE)
                   => \A q \in Decodable(nodes) : q <= Last(last.path)
             /\ chunks[k].metadata.start_point = first.start_point
             /\ chunks[k].metadata.end_point = last.end_point
             /\ \A j \in 1..Len(e.nodes) :
                   /\ SubSeq(e.nodes[j], 1, Len(e.nodes[j]) - 1) = e.list
                   /\ NodeAt(tree, e.nodes[j]).dec
             /\ \A q \in Decodable(nodes) :
                   (Last(first.path) <= q /\ q <= Last(last.path))
                       => \E j \in 1..Len(e.nodes) : e.nodes[j] = nodes[q].path
    /\ \A f \in 1..Len(stack) :
          stack[f].at = "outer"
             => /\ stack[f].current_chunk_nodes = << >>
                /\ stack[f].current_chunk_size = 0
                /\ \A q \in Decodable(stack[f].nodes) :
                      q <= stack[f].i
                         => LET n == stack[f].nodes[q]
                                c == { k \in ChunksOf(n) :
                                         emitted[k].list = stack[f].list }
                            IN \/ Cardinality(c) = 1
                               \/ c = {} /\ TooBig(n)

\* a finished run with a "mix" chunk flushed at MIN_CHUNK_SIZE or more before
\* the end of its list, a later "mix" chunk of the same list flushed below
\* MIN_CHUNK_SIZE, and an undecodable node skipped inside a chunk
C9_Witness ==
    /\ Finished
    /\ \E k \in 1..Len(emitted) : \E j \in 1..Len(emitted) :
          /\ k < j
          /\ emitted[k].list = emitted[j].list
          /\ emitted[k].kind = "mix"
          /\ emitted[k].size >= MIN_CHUNK_SIZE
          /\ emitted[k].i < emitted[k].len
          /\ emitted[j].kind = "mix"
          /\ emitted[j].size < MIN_CHUNK_SIZE
          /\ emitted[j].i = emitted[j].len
    /\ \E k \in 1..Len(emitted) :
          Len(emitted[k].nodes) < emitted[k].i

\* ------------------------------------------------------------------------
\* C10: a chunk whose type is not "mix" is made of exactly one decodable
\* node, has that node's type and points, and the node has at least
\* MIN_CHUNK_SIZE characters and either at most MAX_CHUNK_SIZE characters or
\* no children; a decodable node of fewer than MIN_CHUNK_SIZE characters that
\* the cursor has passed is in exactly one chunk, and that chunk is "mix".
\* ------------------------------------------------------------------------
C10_StandaloneSize ==
    /\ \A k \in 1..Len(chunks) :
          chunks[k].metadata.type # "mix"
             => /\ Len(emitted[k].nodes) = 1
                /\ LET n == NodeAt(tree, emitted[k].nodes[1]) IN
                   /\ n.dec
                   /\ chunks[k].metadata.type = n.type
                   /\ chunks[k].metadata.start_point = n.start_point
                   /\ chunks[k].metadata.end_point = n.end_point
                   /\ NodeSize(n) >= MIN_CHUNK_SIZE
                   /\ NodeSize(n) <= MAX_CHUNK_SIZE \/ Len(n.children) = 0
    /\ \A f \in 1..Len(stack) : \A q \in Decodable(stack[f].nodes) :
          LET n == stack[f].nodes[q] IN
          (stack[f].at = "outer" /\ q <= stack[f].i
             /\ NodeSize(n) < MIN_CHUNK_SIZE)
                => /\ Cardinality(ChunksOf(n)) = 1
                   /\ \A k \in ChunksOf(n) : chunks[k].metadata.type = "mix"

\* a finished run with a standalone chunk followed by a "mix" chunk of the
\* same list made of one small node, the last sibling
C10_Witness ==
    /\ Finished
    /\ \E k \in 1..Len(emitted) : \E j \in 1..Len(emitted) :
          /\ k < j
          /\ emitted[k].list = emitted[j].list
          /\ chunks[k].metadata.type # "mix"
          /\ chunks[j].metadata.type = "mix"
          /\ Len(emitted[j].nodes) = 1
          /\ emitted[j].size < MIN_CHUNK_SIZE
          /\ Last(emitted[j].nodes[1]) = emitted[j].len

TypeOK ==
    /\ pc \in {"start", "running", "done"}
    /\ Len(chunks) = Len(emitted)
====
